---------------------------- MODULE Spec2Model ----------------------------
(***************************************************************************)
(* A model of the a8mini-camera-rs client: the command socket of one       *)
(* A8Mini session, the one-shot calls on it (send_command_blind,           *)
(* send_command, get_attitude_information, get_firmware_version), the      *)
(* background task of stream_attitude_data with its channel, and the       *)
(* LogAttitudeStream loop of main.                                         *)
(*                                                                         *)
(* The device is the environment: it may put any datagram of DG on the     *)
(* socket at any time, or stay silent.  Datagrams are concrete byte        *)
(* sequences; what the code reads of them (received length, byte 7) and    *)
(* what it never reads (length field, trailing checksum) are computed      *)
(* from the bytes.                                                         *)
(***************************************************************************)
EXTENDS Integers, Sequences, FiniteSets, TLC

---------------------------------------------------------------------------
(* Bounds of the model *)

\* datagrams the socket's receive queue holds at most
MaxInbox == 1
\* datagrams passing the attitude check that the device sends to a stream loop
MaxSamples == 2
\* where the count of datagrams a stream loop has dropped stops growing
MaxDropped == 10
\* history counters of sends and receives stop counting here
MaxCount == 2
\* attitude datagrams the device sends to a stream that it answers on every
\* poll: more than the channel holds
MaxBurst == 102
\* largest argument given to connect_yapping
MaxIter == 8
MaxHz == 1001
MaxCommands == 8

---------------------------------------------------------------------------
(* Program constants *)

\* the receive buffer of send_command
RECV_BUFF_SIZE == 64
\* the receive buffer of the stream loops
STREAM_BUFF_SIZE == 128
\* the capacity of the channel of stream_attitude_data
CHANNEL_CAPACITY == 100
\* the failure threshold of the LogAttitudeStream loop
max_failure_threshold == 10

CRC16_TAB ==
  <<0, 4129, 8258, 12387, 16516, 20645, 24774, 28903,
    33032, 37161, 41290, 45419, 49548, 53677, 57806, 61935,
    4657, 528, 12915, 8786, 21173, 17044, 29431, 25302,
    37689, 33560, 45947, 41818, 54205, 50076, 62463, 58334,
    9314, 13379, 1056, 5121, 25830, 29895, 17572, 21637,
    42346, 46411, 34088, 38153, 58862, 62927, 50604, 54669,
    13907, 9842, 5649, 1584, 30423, 26358, 22165, 18100,
    46939, 42874, 38681, 34616, 63455, 59390, 55197, 51132,
    18628, 22757, 26758, 30887, 2112, 6241, 10242, 14371,
    51660, 55789, 59790, 63919, 35144, 39273, 43274, 47403,
    23285, 19156, 31415, 27286, 6769, 2640, 14899, 10770,
    56317, 52188, 64447, 60318, 39801, 35672, 47931, 43802,
    27814, 31879, 19684, 23749, 11298, 15363, 3168, 7233,
    60846, 64911, 52716, 56781, 44330, 48395, 36200, 40265,
    32407, 28342, 24277, 20212, 15891, 11826, 7761, 3696,
    65439, 61374, 57309, 53244, 48923, 44858, 40793, 36728,
    37256, 33193, 45514, 41451, 53516, 49453, 61774, 57711,
    4224, 161, 12482, 8419, 20484, 16421, 28742, 24679,
    33721, 37784, 41979, 46042, 49981, 54044, 58239, 62302,
    689, 4752, 8947, 13010, 16949, 21012, 25207, 29270,
    46570, 42443, 38312, 34185, 62830, 58703, 54572, 50445,
    13538, 9411, 5280, 1153, 29798, 25671, 21540, 17413,
    42971, 47098, 34713, 38840, 59231, 63358, 50973, 55100,
    9939, 14066, 1681, 5808, 26199, 30326, 17941, 22068,
    55628, 51565, 63758, 59695, 39368, 35305, 47498, 43435,
    22596, 18533, 30726, 26663, 6336, 2273, 14466, 10403,
    52093, 56156, 60223, 64286, 35833, 39896, 43963, 48026,
    19061, 23124, 27191, 31254, 2801, 6864, 10931, 14994,
    64814, 60687, 56684, 52557, 48554, 44427, 40424, 36297,
    31782, 27655, 23652, 19525, 15522, 11395, 7392, 3265,
    61215, 65342, 53085, 57212, 44955, 49082, 36825, 40952,
    28183, 32310, 20053, 24180, 11923, 16050, 3793, 7920>>

COMMANDS ==
  <<<<85, 102, 1, 1, 0, 0, 0, 8, 1, 209, 18>>,
    <<85, 102, 1, 2, 0, 0, 0, 7, 0, 45, 62, 209>>,
    <<85, 102, 1, 2, 0, 0, 0, 7, 0, -45, 239, 223>>,
    <<85, 102, 1, 2, 0, 0, 0, 7, -45, 0, 133, 100>>,
    <<85, 102, 1, 2, 0, 0, 0, 7, 45, 0, 75, 84>>,
    <<85, 102, 1, 2, 0, 0, 0, 7, 0, 0, 241, 36>>,
    <<85, 102, 1, 1, 0, 0, 0, 5, 1, 141, 100>>,
    <<85, 102, 1, 1, 0, 0, 0, 5, 255, 92, 106>>,
    <<85, 102, 1, 2, 0, 1, 0, 15, 4, 5, 96, 187>>,
    <<85, 102, 1, 0, 0, 0, 0, 22, 178, 166>>,
    <<85, 102, 1, 1, 0, 0, 0, 6, 1, 222, 49>>,
    <<85, 102, 1, 1, 0, 0, 0, 6, 255, 15, 63>>,
    <<85, 102, 1, 1, 0, 0, 0, 12, 0, 52, 206>>,
    <<85, 102, 1, 1, 0, 0, 0, 12, 2, 118, 238>>,
    <<85, 102, 1, 2, 0, 0, 0, 7, 100, 100, 61, 207>>,
    <<85, 102, 1, 0, 0, 0, 0, 10, 15, 117>>,
    <<85, 102, 1, 1, 0, 0, 0, 4, 1, 188, 87>>,
    <<85, 102, 1, 0, 0, 0, 0, 2, 7, 244>>,
    <<85, 102, 1, 0, 0, 0, 0, 1, 100, 196>>,
    <<85, 102, 1, 1, 0, 0, 0, 12, 3, 87, 254>>,
    <<85, 102, 1, 1, 0, 0, 0, 12, 4, 176, 142>>,
    <<85, 102, 1, 1, 0, 0, 0, 12, 5, 145, 158>>,
    <<85, 102, 1, 0, 0, 0, 0, 13, 232, 5>>,
    <<85, 102, 1, 1, 0, 0, 0, 12, 6, 242, 174>>,
    <<85, 102, 1, 1, 0, 0, 0, 12, 7, 211, 190>>,
    <<85, 102, 1, 1, 0, 0, 0, 12, 8, 60, 79>>,
    <<85, 102, 1, 0, 0, 0, 0, 21, 209, 150>>>>

COMMAND_SIZES ==
  <<11, 12, 12, 12, 12, 12, 11, 11, 12, 10, 11, 11, 11, 11, 12, 10, 11, 10,
    10, 11, 11, 11, 10, 11, 11, 11, 10>>

NUM_COMMANDS == 27
MIN_CMD_SIZE == 10

\* a slip: the 12-byte frames overlooked
MAX_CMD_SIZE_short == MIN_CMD_SIZE + 1

MAX_CMD_SIZE == 13

Min(a, b) == IF a < b THEN a ELSE b

\* a slip: a negative entry taken without its sign
ByteAbs(x) == IF x < 0 THEN 0 - x ELSE x

\* an entry of COMMANDS (an i32) taken as the byte that goes on the wire
Byte(x) == x % 256

RECURSIVE Xor(_, _)
Xor(a, b) ==
  IF a = 0 THEN b
  ELSE IF b = 0 THEN a
  ELSE ((a + b) % 2) + 2 * Xor(a \div 2, b \div 2)

\* one step of the checksum: shift the accumulator, look the table up on
\* (high byte XOR input byte)
CRC16_step(crc, b) ==
  Xor((crc * 256) % 65536, CRC16_TAB[Xor(crc \div 256, b) + 1])

RECURSIVE CRC16_cal(_, _)
CRC16_cal(bytes, crc) ==
  IF bytes = <<>> THEN crc
  ELSE CRC16_cal(Tail(bytes), CRC16_step(crc, Head(bytes)))

---------------------------------------------------------------------------
(* The datagrams the device may send *)

\* 1: attitude reply, well formed          (22 bytes, id 0x0D)
\* 2: the same with a wrong checksum       (22 bytes, id 0x0D)
\* 3: the same with length field 11, checksum right over the bytes
\* 4: an attitude frame with no payload    (10 bytes, id 0x0D)
\* 5: firmware version reply               (22 bytes, id 0x01)
\* 6: the empty datagram
DG ==
  << <<85, 102, 2, 12, 0, 0, 0, 13, 100, 0, 206, 255, 0, 0, 5, 0, 0, 0, 251, 255, 217, 0>>,
     <<85, 102, 2, 12, 0, 0, 0, 13, 100, 0, 206, 255, 0, 0, 5, 0, 0, 0, 251, 255, 216, 0>>,
     <<85, 102, 2, 11, 0, 0, 0, 13, 100, 0, 206, 255, 0, 0, 5, 0, 0, 0, 251, 255, 119, 114>>,
     <<85, 102, 2, 0, 0, 0, 0, 13, 8, 203>>,
     <<85, 102, 2, 12, 0, 0, 0, 1, 3, 2, 1, 110, 3, 2, 1, 110, 3, 2, 1, 110, 171, 48>>,
     <<>> >>

DGs == 1..Len(DG)

\* the frame's checksum field agrees with the checksum of the bytes before it
ChecksumOk(bytes) ==
  /\ Len(bytes) >= 10
  /\ CRC16_cal(SubSeq(bytes, 1, Len(bytes) - 2), 0)
       = bytes[Len(bytes) - 1] + 256 * bytes[Len(bytes)]

\* the frame's length field agrees with the number of payload bytes
LengthFieldOk(bytes) ==
  /\ Len(bytes) >= 10
  /\ bytes[4] + 256 * bytes[5] = Len(bytes) - 10

\* per datagram: what a receive reports and what the frame checks would say
DGInfo ==
  [d \in DGs |->
     [len    |-> Len(DG[d]),
      id     |-> IF Len(DG[d]) >= 8 THEN DG[d][8] ELSE 0,
      crc_ok |-> ChecksumOk(DG[d]),
      len_ok |-> LengthFieldOk(DG[d])]]

\* the command id of a request frame of COMMANDS (offset 7)
CommandId(cmd) == Byte(COMMANDS[cmd][8])

---------------------------------------------------------------------------
(* State *)

Callers == {"t1", "t2"}

Apis == {"send_command_blind", "send_command",
         "get_attitude_information", "get_firmware_version"}

\* the canned frame (index of COMMANDS, from 1) each call sends
AutoCenter == 1
FirmwareVersionInformation == 19
AttitudeInformation == 23

CommandsOf(api) ==
  IF api = "get_attitude_information" THEN {AttitudeInformation}
  ELSE IF api = "get_firmware_version" THEN {FirmwareVersionInformation}
  ELSE {AutoCenter}

\* what UdpSocket::send may report: bytes sent, no byte sent, an error
SendOutcomes == {"ok", "zero", "err"}

NoCall == [api |-> "none", cmd |-> 0]
NoResult == [kind |-> "none", dg |-> 0]

VARIABLES
  command_socket,  \* "connected" | "closed": the session's command socket
  inbox,           \* datagrams received by the socket and not yet read
  pc,              \* per caller: "idle" | "recv" | "done"
  req,             \* per caller: the call it made
  res,             \* per caller: what the call returned
  overlap,         \* a request was sent while another one was outstanding
  produced,        \* typed values produced so far, each with its datagram
  stream_pc,       \* the task of stream_attitude_data: "none" | "send" |
                   \* "recv" | "tx_send" | "sleep" | "exited"
  att,             \* the sample the task is sending to the channel (0: none)
  chan,            \* the channel: samples sent and not yet received
  rx_dropped,      \* the consumer dropped the receiver
  log_pc,          \* the LogAttitudeStream loop: "none" | "send" | "recv" |
                   \* "sleep" | "break" | "err_send" | "err_timeout" |
                   \* "err_write"
  failure_count,   \* the loop's failure_count
  fed_valid,       \* datagrams a stream loop read that are attitude
                   \* datagrams of full length
  fed_invalid,     \* datagrams a stream loop read that are not, counted
                   \* while none of its receive waits has failed
  fed_fail,        \* a receive wait of the stream loop failed
  h_fails,         \* receive waits failed in a row, up to the threshold
  h_emitted,       \* samples the stream loop emitted
  h_io,            \* per caller: what the send of its call reported, and how
                   \* many sends and receives the call has made
  h_requests,      \* poll requests a stream loop has issued (its calls of
                   \* send_command_blind), counted up to MaxCount
  h_delivered,     \* samples the consumer has taken from the channel
  cy_pc,           \* connect_yapping: "none" | "loop" | "bind_command" |
                   \* "bind_http" | "connect_command" | "connect_http" |
                   \* "ok" | "err"
  max_iter,        \* connect_yapping's argument
  cy_iter,         \* the value of the loop variable of `for _ in 1..max_iter`
  h_attempts,      \* calls of connect() made by connect_yapping
  t_row,           \* checksum walk: the row of COMMANDS (0: none)
  t_pos,           \* checksum walk: bytes of the row taken so far
  t_crc,           \* checksum walk: the accumulator
  h_cycle,         \* the current cycle of a polling loop: what the send of
                   \* its request reported (kept while the cycle is in its
                   \* receive wait), datagrams taken, samples emitted
  cy_sockets,      \* the sockets of the connect attempt in progress
  r_pc,            \* pacing of a polling loop: "none" | "wait" | "sleep" |
                   \* "slept" | "panic"
  target_hz,       \* the rate the loop was started with
  interval_ms,     \* the loop's sleep time
  r_waited,        \* ms the cycle spent in its receive wait
  r_slept,         \* ms the cycle slept
  cli_pc,          \* main's command loop: "none" | "read" | "connect" |
                   \* "run" | "exit_err" | "exit_addr_in_use"
  cli_kind,        \* the kind of command read
  cli_sessions,    \* sessions of the process that hold the local ports
  cli_count        \* known commands read so far

oneshot_vars == <<pc, req, res, overlap>>
stream_vars == <<stream_pc, att, chan, rx_dropped>>
log_vars == <<log_pc, failure_count>>
hist_vars == <<fed_valid, fed_invalid, fed_fail, h_fails, h_emitted>>

io_vars == <<h_io, h_requests, h_delivered>>
connect_vars == <<cy_pc, max_iter, cy_iter, h_attempts, cy_sockets>>
rate_vars == <<r_pc, target_hz, interval_ms, r_waited, r_slept>>
cli_vars == <<cli_pc, cli_kind, cli_sessions, cli_count>>
table_vars == <<t_row, t_pos, t_crc>>

vars == <<command_socket, inbox, produced, oneshot_vars, stream_vars,
          log_vars, hist_vars, io_vars, h_cycle, connect_vars, table_vars,
          rate_vars, cli_vars>>

NoIo == [send |-> "none", sends |-> 0, recvs |-> 0]
NoCycle == [send |-> "none", taken |-> 0, emitted |-> 0]
NoSockets == [command |-> "none", http |-> "none"]

Outstanding == {c \in Callers : pc[c] = "recv"}

\* the session is still the caller's: not moved into the stream task, and
\* main is not inside the logging loop
SessionWithCaller == stream_pc = "none" /\ log_pc = "none"

\* nothing has been called yet
SessionIdle ==
  /\ inbox = <<>>
  /\ pc = [c \in Callers |-> "idle"]
  /\ req = [c \in Callers |-> NoCall]
  /\ res = [c \in Callers |-> NoResult]
  /\ overlap = FALSE
  /\ produced = {}
  /\ stream_pc = "none"
  /\ att = 0
  /\ chan = <<>>
  /\ rx_dropped = FALSE
  /\ log_pc = "none"
  /\ failure_count = 0
  /\ fed_valid = 0
  /\ fed_invalid = 0
  /\ fed_fail = FALSE
  /\ h_fails = 0
  /\ h_emitted = 0
  /\ h_io = [c \in Callers |-> NoIo]
  /\ h_requests = 0
  /\ h_delivered = 0
  /\ cy_pc = "none"
  /\ max_iter = 0
  /\ cy_iter = 0
  /\ h_attempts = 0
  /\ t_row = 0
  /\ t_pos = 0
  /\ t_crc = 0
  /\ h_cycle = NoCycle
  /\ cy_sockets = NoSockets
  /\ r_pc = "none"
  /\ target_hz = 0
  /\ interval_ms = 0
  /\ r_waited = 0
  /\ r_slept = 0
  /\ cli_pc = "none"
  /\ cli_kind = "none"
  /\ cli_sessions = 0
  /\ cli_count = 0

\* a connected session, as A8Mini::connect returns it
Init ==
  /\ command_socket = "connected"
  /\ SessionIdle

---------------------------------------------------------------------------
(* The device *)

\* an attitude datagram of full length: what the stream loops decode
IsAttitudeDatagram(d) == DGInfo[d].len >= 20 /\ DGInfo[d].id = 13

AttitudeInInbox ==
  Cardinality({i \in 1..Len(inbox) : IsAttitudeDatagram(inbox[i])})

\* the device puts a datagram on the socket; it sends a stream loop at
\* most MaxSamples attitude datagrams
DeviceSend(d) ==
  /\ command_socket = "connected"
  /\ Len(inbox) < MaxInbox
  /\ IsAttitudeDatagram(d) => fed_valid + AttitudeInInbox < MaxSamples
  /\ inbox' = Append(inbox, d)
  /\ UNCHANGED <<command_socket, produced, oneshot_vars, stream_vars,
                 log_vars, hist_vars>>
  /\ UNCHANGED <<io_vars, connect_vars, table_vars, rate_vars, cli_vars>>
  /\ UNCHANGED h_cycle

---------------------------------------------------------------------------
(* One-shot calls *)

\* a slip: the result of the send not looked at
send_command_blind_ignored(out) == "Ok"

\* a slip: the test of send_len left out
send_command_blind_unchecked(out) ==
  IF out = "err" THEN "ErrSend" ELSE "Ok"

\* send_command_blind: Err when the send fails or sends no byte
send_command_blind(out) ==
  IF out = "err" THEN "ErrSend"
  ELSE IF out = "zero" THEN "ErrNoBytesSent"
  ELSE "Ok"

\* a caller starts a call: the send of send_command_blind, which is also
\* the first half of send_command
Call(c, api, cmd, out) ==
  /\ command_socket = "connected"
  /\ SessionWithCaller
  /\ pc[c] = "idle"
  /\ req' = [req EXCEPT ![c] = [api |-> api, cmd |-> cmd]]
  /\ IF send_command_blind(out) # "Ok"
       THEN /\ pc' = [pc EXCEPT ![c] = "done"]
            /\ res' = [res EXCEPT ![c] = [kind |-> send_command_blind(out), dg |-> 0]]
            /\ UNCHANGED overlap
       ELSE IF api = "send_command_blind"
         THEN /\ pc' = [pc EXCEPT ![c] = "done"]
              /\ res' = [res EXCEPT ![c] = [kind |-> "Ok", dg |-> 0]]
              /\ UNCHANGED overlap
         ELSE /\ pc' = [pc EXCEPT ![c] = "recv"]
              /\ overlap' = (overlap \/ Outstanding # {})
              /\ UNCHANGED res
  /\ UNCHANGED <<command_socket, inbox, produced, stream_vars, log_vars,
                 hist_vars>>
  /\ h_io' = [h_io EXCEPT ![c] = [send |-> out, sends |-> 1, recvs |-> 0]]
  /\ UNCHANGED <<h_requests, h_delivered, connect_vars, table_vars, rate_vars, cli_vars>>
  /\ UNCHANGED h_cycle

\* the length a receive into a buffer of n bytes reports for datagram d
RecvLen(d, n) == Min(DGInfo[d].len, n)

\* a slip: the test of recv_len left out
RecvLenNeverZero(recv_len) == FALSE

\* a slip: an empty read taken to be any read below the attitude length
RecvLenBelowAttitude(recv_len) == recv_len < 20

\* if recv_len == 0: nothing was read
RecvLenIsZero(recv_len) == recv_len = 0

\* send_command after its receive returned datagram d: the buffer, or the
\* error for an empty read
send_command(d) ==
  IF RecvLenIsZero(RecvLen(d, RECV_BUFF_SIZE))
    THEN [kind |-> "ErrNoBytesReceived", dg |-> 0]
    ELSE [kind |-> "Ok", dg |-> d]

\* response.len(): the response is the whole buffer [u8; RECV_BUFF_SIZE]
ResponseLen == RECV_BUFF_SIZE

\* get_attitude_information on send_command's return r
get_attitude_information(r) ==
  IF r.kind # "Ok" THEN r
  ELSE IF ResponseLen < 20 THEN [kind |-> "ErrTooShort", dg |-> 0]
  ELSE [kind |-> "OkAttitude", dg |-> r.dg]

\* get_firmware_version on send_command's return r
get_firmware_version(r) ==
  IF r.kind # "Ok" THEN r
  ELSE IF ResponseLen < 16 THEN [kind |-> "ErrTooShort", dg |-> 0]
  ELSE [kind |-> "OkFirmware", dg |-> r.dg]

ApiResult(api, r) ==
  IF api = "get_attitude_information" THEN get_attitude_information(r)
  ELSE IF api = "get_firmware_version" THEN get_firmware_version(r)
  ELSE r

TypedKinds == {"OkAttitude", "OkFirmware"}

\* the receive of send_command returns the oldest datagram of the socket
RecvReply(c) ==
  /\ pc[c] = "recv"
  /\ inbox # <<>>
  /\ LET r == ApiResult(req[c].api, send_command(Head(inbox))) IN
       /\ res' = [res EXCEPT ![c] = r]
       /\ produced' = IF r.kind \in TypedKinds
                        THEN produced \cup {[by |-> req[c].api, dg |-> r.dg]}
                        ELSE produced
  /\ inbox' = Tail(inbox)
  /\ pc' = [pc EXCEPT ![c] = "done"]
  /\ UNCHANGED <<command_socket, req, overlap, stream_vars, log_vars,
                 hist_vars>>
  /\ h_io' = [h_io EXCEPT ![c].recvs = Min(@ + 1, MaxCount)]
  /\ UNCHANGED <<h_requests, h_delivered, connect_vars, table_vars, rate_vars, cli_vars>>
  /\ UNCHANGED h_cycle

\* a slip: the receive awaited without timeout(..), so no deadline passes
RecvWithoutDeadline(c) == FALSE

\* the deadline of timeout(RECV_TIMEOUT, recv) passes with nothing received
RecvDeadlineElapses(c) == pc[c] = "recv" /\ inbox = <<>>

\* a slip: the receive tried again when its deadline passes
WaitAgainAfterDeadline == "recv"

\* timeout(..).await??: the Elapsed error returns from send_command
AfterDeadline == "done"

RecvTimeout(c) ==
  /\ RecvDeadlineElapses(c)
  /\ res' = [res EXCEPT ![c] = [kind |-> "ErrTimeout", dg |-> 0]]
  /\ pc' = [pc EXCEPT ![c] = AfterDeadline]
  /\ UNCHANGED <<command_socket, inbox, produced, req, overlap,
                 stream_vars, log_vars, hist_vars>>
  /\ h_io' = [h_io EXCEPT ![c].recvs = Min(@ + 1, MaxCount)]
  /\ UNCHANGED <<h_requests, h_delivered, connect_vars, table_vars, rate_vars, cli_vars>>
  /\ UNCHANGED h_cycle

\* the receive itself fails (an I/O error of the socket)
RecvError(c) ==
  /\ pc[c] = "recv"
  /\ res' = [res EXCEPT ![c] = [kind |-> "ErrRecv", dg |-> 0]]
  /\ pc' = [pc EXCEPT ![c] = "done"]
  /\ UNCHANGED <<command_socket, inbox, produced, req, overlap,
                 stream_vars, log_vars, hist_vars>>
  /\ h_io' = [h_io EXCEPT ![c].recvs = Min(@ + 1, MaxCount)]
  /\ UNCHANGED <<h_requests, h_delivered, connect_vars, table_vars, rate_vars, cli_vars>>
  /\ UNCHANGED h_cycle

---------------------------------------------------------------------------
(* What a stream loop was fed: bookkeeping shared by both loops *)

FedDatagram(d) ==
  /\ fed_valid' = IF IsAttitudeDatagram(d) THEN fed_valid + 1 ELSE fed_valid
  /\ fed_invalid' = IF IsAttitudeDatagram(d) \/ fed_fail THEN fed_invalid
                    ELSE Min(fed_invalid + 1, MaxDropped)
  /\ h_fails' = 0
  /\ UNCHANGED fed_fail

FedFailure ==
  /\ h_fails' = Min(h_fails + 1, max_failure_threshold)
  /\ fed_fail' = TRUE
  /\ fed_invalid' = 0
  /\ UNCHANGED fed_valid

---------------------------------------------------------------------------
(* stream_attitude_data: the spawned task, which owns the session *)

\* the session is moved into the task, and dropped (its sockets closed)
\* when the task ends; commands issued on it before the move leave no
\* trace but in the socket's queue, which DeviceSend covers
StartStream ==
  /\ command_socket = "connected"
  /\ SessionWithCaller
  /\ \A c \in Callers : pc[c] = "idle"
  /\ stream_pc' = "send"
  /\ UNCHANGED <<command_socket, inbox, produced, oneshot_vars, att, chan,
                 rx_dropped, log_vars, hist_vars>>
  /\ UNCHANGED <<io_vars, connect_vars, table_vars, rate_vars, cli_vars>>
  /\ UNCHANGED h_cycle

\* the poll request; its result is ignored
\* a slip: a failed send taken to end the task
StreamEndsOnSendError(result) ==
  IF result = "Ok" THEN "recv" ELSE "exited"

\* if let Err(_) = ..send_command_blind(..).await {}: whatever the result,
\* the task goes on to its receive
StreamAfterSend(result) == "recv"

StreamSend(out) ==
  /\ stream_pc = "send"
  /\ send_command_blind(out) \in {"Ok", "ErrSend", "ErrNoBytesSent"}
  /\ stream_pc' = StreamAfterSend(send_command_blind(out))
  /\ UNCHANGED <<command_socket, inbox, produced, oneshot_vars, att, chan,
                 rx_dropped, log_vars, hist_vars>>
  /\ h_requests' = Min(h_requests + 1, MaxCount)
  /\ UNCHANGED <<h_io, h_delivered, connect_vars, table_vars, rate_vars, cli_vars>>
  /\ h_cycle' = [send |-> out, taken |-> 0, emitted |-> 0]

\* the check of the task before it decodes: len >= 20 && buffer[7] == 0x0D
stream_accepts(len, id) == len >= 20 /\ id = 13

\* a slip: the receive tried again after a datagram that is dropped
ReceiveAgainAfterDropped == "recv"

\* a datagram that fails the test falls through to the sleep
AfterDropped == "sleep"

\* a datagram arrives within the 50 ms; deserialize of the 12 bytes
\* buffer[8..20] into the six 16-bit fields of a sample cannot fail
StreamRecv ==
  /\ stream_pc = "recv"
  /\ inbox # <<>>
  /\ LET d == Head(inbox) IN
       /\ IF stream_accepts(RecvLen(d, STREAM_BUFF_SIZE), DGInfo[d].id)
            THEN stream_pc' = "tx_send" /\ att' = d
            ELSE stream_pc' = AfterDropped /\ att' = att
       /\ FedDatagram(d)
  /\ inbox' = Tail(inbox)
  /\ UNCHANGED <<command_socket, produced, oneshot_vars, chan, rx_dropped,
                 log_vars, h_emitted>>
  /\ UNCHANGED <<io_vars, connect_vars, table_vars, rate_vars, cli_vars>>
  /\ h_cycle' = [h_cycle EXCEPT !.send = "none",
                                !.taken = Min(@ + 1, MaxCount)]

\* the 50 ms pass with nothing received: the `_ => {}` arm
StreamTimeout ==
  /\ stream_pc = "recv"
  /\ inbox = <<>>
  /\ stream_pc' = "sleep"
  /\ FedFailure
  /\ UNCHANGED <<command_socket, inbox, produced, oneshot_vars, att, chan,
                 rx_dropped, log_vars, h_emitted>>
  /\ UNCHANGED <<io_vars, connect_vars, table_vars, rate_vars, cli_vars>>
  /\ h_cycle' = [h_cycle EXCEPT !.send = "none"]

\* the receive fails: the same arm
StreamRecvError ==
  /\ stream_pc = "recv"
  /\ stream_pc' = "sleep"
  /\ FedFailure
  /\ UNCHANGED <<command_socket, inbox, produced, oneshot_vars, att, chan,
                 rx_dropped, log_vars, h_emitted>>
  /\ UNCHANGED <<io_vars, connect_vars, table_vars, rate_vars, cli_vars>>
  /\ h_cycle' = [h_cycle EXCEPT !.send = "none"]

\* a slip: a channel without a bound
ChannelNeverFull == TRUE

\* mpsc::channel(100): a send finds room while fewer than 100 are queued
ChannelHasRoom == Len(chan) < CHANNEL_CAPACITY

\* tx.send(att).await: fails once the receiver is gone, and then the task
\* leaves the loop and drops the session; waits while the channel is full
StreamTxSend ==
  /\ stream_pc = "tx_send"
  /\ IF rx_dropped
       THEN /\ stream_pc' = "exited"
            /\ command_socket' = "closed"
            /\ UNCHANGED <<inbox, chan, produced, h_emitted>>
       ELSE /\ ChannelHasRoom
            /\ chan' = Append(chan, att)
            /\ produced' = produced \cup {[by |-> "stream_attitude_data", dg |-> att]}
            /\ h_emitted' = h_emitted + 1
            /\ stream_pc' = "sleep"
            /\ UNCHANGED <<command_socket, inbox>>
  /\ att' = 0
  /\ UNCHANGED <<oneshot_vars, rx_dropped, log_vars, fed_valid, fed_invalid,
                 fed_fail, h_fails>>
  /\ UNCHANGED <<io_vars, connect_vars, table_vars, rate_vars, cli_vars>>
  /\ h_cycle' = IF rx_dropped THEN h_cycle
                ELSE [h_cycle EXCEPT !.emitted = Min(@ + 1, MaxCount)]

StreamSleep ==
  /\ stream_pc = "sleep"
  /\ stream_pc' = "send"
  /\ UNCHANGED <<command_socket, inbox, produced, oneshot_vars, att, chan,
                 rx_dropped, log_vars, hist_vars>>
  /\ UNCHANGED <<io_vars, connect_vars, table_vars, rate_vars, cli_vars>>
  /\ h_cycle' = NoCycle

\* the consumer takes the oldest sample of the channel
ConsumerRecv ==
  /\ stream_pc # "none"
  /\ ~rx_dropped
  /\ chan # <<>>
  /\ chan' = Tail(chan)
  /\ UNCHANGED <<command_socket, inbox, produced, oneshot_vars, stream_pc,
                 att, rx_dropped, log_vars, hist_vars>>
  /\ h_delivered' = h_delivered + 1
  /\ UNCHANGED <<h_io, h_requests, connect_vars, table_vars, rate_vars, cli_vars>>
  /\ UNCHANGED h_cycle

\* the consumer drops the receiver: the channel closes, what it held is lost
ConsumerDrop ==
  /\ stream_pc # "none"
  /\ ~rx_dropped
  /\ rx_dropped' = TRUE
  /\ chan' = <<>>
  /\ UNCHANGED <<command_socket, inbox, produced, oneshot_vars, stream_pc,
                 att, log_vars, hist_vars>>
  /\ UNCHANGED <<io_vars, connect_vars, table_vars, rate_vars, cli_vars>>
  /\ UNCHANGED h_cycle

---------------------------------------------------------------------------
(* main: the LogAttitudeStream loop *)

StartLog ==
  /\ command_socket = "connected"
  /\ SessionWithCaller
  /\ \A c \in Callers : pc[c] = "idle"
  /\ log_pc' = "send"
  /\ UNCHANGED <<command_socket, inbox, produced, oneshot_vars, stream_vars,
                 failure_count, hist_vars>>
  /\ UNCHANGED <<io_vars, connect_vars, table_vars, rate_vars, cli_vars>>
  /\ UNCHANGED h_cycle

\* camera.send_command_blind(..).await?: a failed send returns from main
LogSend(out) ==
  /\ log_pc = "send"
  /\ IF send_command_blind(out) # "Ok"
       THEN log_pc' = "err_send" /\ command_socket' = "closed"
       ELSE log_pc' = "recv" /\ UNCHANGED command_socket
  /\ UNCHANGED <<inbox, produced, oneshot_vars, stream_vars, failure_count,
                 hist_vars>>
  /\ h_requests' = Min(h_requests + 1, MaxCount)
  /\ UNCHANGED <<h_io, h_delivered, connect_vars, table_vars, rate_vars, cli_vars>>
  /\ h_cycle' = [send |-> out, taken |-> 0, emitted |-> 0]

\* a slip: the check without its length test
log_accepts_any_length(len, id) == id = 13

\* the check of the loop before it decodes: len >= 20 && buffer[7] == 0x0D
log_accepts(len, id) == len >= 20 /\ id = 13

\* a datagram arrives within the 50 ms; an accepted one is decoded and
\* written to the file, and a failed write returns from main
LogRecv(write_ok) ==
  /\ log_pc = "recv"
  /\ inbox # <<>>
  /\ LET d == Head(inbox) IN
       /\ IF log_accepts(RecvLen(d, STREAM_BUFF_SIZE), DGInfo[d].id)
            THEN IF write_ok
                   THEN /\ produced' = produced \cup {[by |-> "LogAttitudeStream", dg |-> d]}
                        /\ h_emitted' = h_emitted + 1
                        /\ log_pc' = "sleep"
                        /\ inbox' = Tail(inbox)
                        /\ UNCHANGED command_socket
                   ELSE /\ log_pc' = "err_write"
                        /\ command_socket' = "closed"
                        /\ inbox' = Tail(inbox)
                        /\ UNCHANGED <<produced, h_emitted>>
            ELSE /\ write_ok
                 /\ log_pc' = "sleep"
                 /\ inbox' = Tail(inbox)
                 /\ UNCHANGED <<command_socket, produced, h_emitted>>
       /\ FedDatagram(d)
  /\ UNCHANGED <<oneshot_vars, stream_vars, failure_count>>
  /\ UNCHANGED <<io_vars, connect_vars, table_vars, rate_vars, cli_vars>>
  /\ h_cycle' = [h_cycle EXCEPT
                   !.send = "none",
                   !.taken = Min(@ + 1, MaxCount),
                   !.emitted = IF h_emitted' # h_emitted
                                 THEN Min(@ + 1, MaxCount) ELSE @]

\* the 50 ms pass with nothing received: or_else(..)? returns from main
LogTimeout ==
  /\ log_pc = "recv"
  /\ inbox = <<>>
  /\ log_pc' = "err_timeout"
  /\ command_socket' = "closed"
  /\ FedFailure
  /\ UNCHANGED <<inbox, produced, oneshot_vars, stream_vars, failure_count,
                 h_emitted>>
  /\ UNCHANGED <<io_vars, connect_vars, table_vars, rate_vars, cli_vars>>
  /\ h_cycle' = [h_cycle EXCEPT !.send = "none"]

\* the receive fails: the Err(e) arm counts it, breaks at the threshold and
\* otherwise continues without the sleep
LogRecvError ==
  /\ log_pc = "recv"
  /\ failure_count' = failure_count + 1
  /\ IF failure_count + 1 >= max_failure_threshold
       THEN log_pc' = "break" /\ command_socket' = "closed"
       ELSE log_pc' = "send" /\ UNCHANGED command_socket
  /\ FedFailure
  /\ UNCHANGED <<inbox, produced, oneshot_vars, stream_vars, h_emitted>>
  /\ UNCHANGED <<io_vars, connect_vars, table_vars, rate_vars, cli_vars>>
  /\ h_cycle' = NoCycle

LogSleep ==
  /\ log_pc = "sleep"
  /\ log_pc' = "send"
  /\ UNCHANGED <<command_socket, inbox, produced, oneshot_vars, stream_vars,
                 failure_count, hist_vars>>
  /\ UNCHANGED <<io_vars, connect_vars, table_vars, rate_vars, cli_vars>>
  /\ h_cycle' = NoCycle

---------------------------------------------------------------------------
(* Specifications *)

StreamStep ==
  \/ \E out \in SendOutcomes : StreamSend(out)
  \/ StreamRecv
  \/ StreamTimeout
  \/ StreamTxSend
  \/ StreamSleep

LogStep ==
  \/ \E out \in SendOutcomes : LogSend(out)
  \/ \E write_ok \in BOOLEAN : LogRecv(write_ok)
  \/ LogTimeout
  \/ LogSleep

Next ==
  \/ \E d \in DGs : DeviceSend(d)
  \/ \E c \in Callers, api \in Apis, out \in SendOutcomes :
       \E cmd \in CommandsOf(api) : Call(c, api, cmd, out)
  \/ \E c \in Callers : RecvReply(c)
  \/ \E c \in Callers : RecvTimeout(c)
  \/ \E c \in Callers : RecvError(c)
  \/ StartStream
  \/ StreamStep
  \/ StreamRecvError
  \/ ConsumerRecv
  \/ ConsumerDrop
  \/ StartLog
  \/ LogStep
  \/ LogRecvError

Spec == Init /\ [][Next]_vars

\* The checksum of a canned frame, computed byte by byte over all its bytes
\* but the last two, for any row of COMMANDS
TableStart(i) ==
  /\ t_row = 0
  /\ t_row' = i
  /\ t_pos' = 0
  /\ t_crc' = 0
  /\ UNCHANGED <<command_socket, inbox, produced, oneshot_vars, stream_vars,
                 log_vars, hist_vars, io_vars, connect_vars, rate_vars, cli_vars>>
  /\ UNCHANGED h_cycle

TableStepByte ==
  /\ t_row # 0
  /\ t_pos < Len(COMMANDS[t_row]) - 2
  /\ t_crc' = CRC16_step(t_crc, Byte(COMMANDS[t_row][t_pos + 1]))
  /\ t_pos' = t_pos + 1
  /\ UNCHANGED <<command_socket, inbox, produced, oneshot_vars, stream_vars,
                 log_vars, hist_vars, io_vars, connect_vars, t_row, rate_vars, cli_vars>>
  /\ UNCHANGED h_cycle

TableNext ==
  \/ \E i \in 1..NUM_COMMANDS : TableStart(i)
  \/ TableStepByte

TableSpec == Init /\ [][TableNext]_vars

\* connect_yapping(max_iter), starting with no session
ConnectInit ==
  /\ command_socket = "closed"
  /\ SessionIdle

\* the range 1..max_iter starts at 1
CallConnectYapping(m) ==
  /\ cy_pc = "none"
  /\ max_iter' = m
  /\ cy_iter' = 1
  /\ cy_pc' = "loop"
  /\ UNCHANGED <<command_socket, inbox, produced, oneshot_vars, stream_vars,
                 log_vars, hist_vars, io_vars, h_attempts, cy_sockets, table_vars,
                 rate_vars, cli_vars>>
  /\ UNCHANGED h_cycle

\* for _ in 1..max_iter: the range is exhausted when the variable reaches
\* max_iter; otherwise the body calls connect()
ConnectLoop ==
  /\ cy_pc = "loop"
  /\ IF cy_iter < max_iter
       THEN cy_pc' = "bind_command" /\ h_attempts' = h_attempts + 1
       ELSE cy_pc' = "err" /\ UNCHANGED h_attempts
  /\ UNCHANGED <<command_socket, inbox, produced, oneshot_vars, stream_vars,
                 log_vars, hist_vars, io_vars, max_iter, cy_iter, cy_sockets,
                 table_vars, rate_vars, cli_vars>>
  /\ UNCHANGED h_cycle

\* the steps of connect_to in their order
ConnectStages ==
  <<"bind_command", "bind_http", "connect_command", "connect_http">>

StageOf(p) == CHOOSE i \in 1..Len(ConnectStages) : ConnectStages[i] = p

\* what a step of connect_to that succeeds does to the attempt's sockets
SocketsAfter(stage, s) ==
  IF stage = "bind_command" THEN [s EXCEPT !.command = "bound"]
  ELSE IF stage = "bind_http" THEN [s EXCEPT !.http = "bound"]
  ELSE IF stage = "connect_command" THEN [s EXCEPT !.command = "connected"]
  ELSE [s EXCEPT !.http = "connected"]

\* a slip: the sockets of a failed attempt kept open
KeptSockets(s) == s

\* `?` returns from connect_to: the sockets made so far are dropped
DropSockets(s) == NoSockets

\* one step of connect_to: on failure `?` returns the error, the attempt
\* is over and the loop goes on; after the last step the session is returned
ConnectStep(ok) ==
  /\ \E i \in 1..Len(ConnectStages) : ConnectStages[i] = cy_pc
  /\ IF ~ok
       THEN /\ cy_pc' = "loop"
            /\ cy_iter' = cy_iter + 1
            /\ cy_sockets' = DropSockets(cy_sockets)
            /\ UNCHANGED command_socket
       ELSE IF StageOf(cy_pc) < Len(ConnectStages)
         THEN /\ cy_pc' = ConnectStages[StageOf(cy_pc) + 1]
              /\ cy_sockets' = SocketsAfter(cy_pc, cy_sockets)
              /\ UNCHANGED <<cy_iter, command_socket>>
         ELSE /\ cy_pc' = "ok"
              /\ cy_sockets' = SocketsAfter(cy_pc, cy_sockets)
              /\ command_socket' = "connected"
              /\ UNCHANGED cy_iter
  /\ UNCHANGED <<inbox, produced, oneshot_vars, stream_vars, log_vars,
                 hist_vars, io_vars, max_iter, h_attempts, table_vars, rate_vars, cli_vars>>
  /\ UNCHANGED h_cycle

ConnectNext ==
  \/ \E m \in 1..MaxIter : CallConnectYapping(m)
  \/ ConnectLoop
  \/ \E ok \in BOOLEAN : ConnectStep(ok)
  \/ \E c \in Callers, api \in Apis, out \in SendOutcomes :
       \E cmd \in CommandsOf(api) : Call(c, api, cmd, out)

ConnectSpec == ConnectInit /\ [][ConnectNext]_vars

\* The timing of one polling cycle, in milliseconds: how long the receive
\* wait lasted and how long the sleep that ends the cycle

\* the receive wait's deadline, from_millis(50) in both loops
RECV_WAIT_MS == 50

\* the logging loop of main sleeps from_millis(10): "target ~100Hz"
LOG_SLEEP_MS == 10
LOG_TARGET_HZ == 100

\* `1000 / target_hz` on u64: the quotient rounded down, for target_hz > 0
IntervalMs(hz) == 1000 \div hz

\* sleep(Duration::from_millis(interval_ms)): the whole interval, whatever
\* the receive wait took
SleepMs(interval, waited) == interval

\* stream_attitude_data(target_hz): the division comes first and panics on
\* zero, before the task is spawned
RateStart(hz) ==
  /\ r_pc = "none"
  /\ target_hz' = hz
  /\ IF hz = 0
       THEN /\ r_pc' = "panic"
            /\ UNCHANGED interval_ms
       ELSE /\ r_pc' = "send"
            /\ interval_ms' = IntervalMs(hz)
  /\ UNCHANGED <<r_waited, r_slept>>
  /\ UNCHANGED <<command_socket, inbox, produced, oneshot_vars, stream_vars,
                 log_vars, hist_vars, io_vars, h_cycle, connect_vars,
                 table_vars, cli_vars>>

\* main's LogAttitudeStream loop: its sleep is a fixed 10 ms
RateLogStart ==
  /\ r_pc = "none"
  /\ target_hz' = LOG_TARGET_HZ
  /\ interval_ms' = LOG_SLEEP_MS
  /\ r_pc' = "log_send"
  /\ UNCHANGED <<r_waited, r_slept>>
  /\ UNCHANGED <<command_socket, inbox, produced, oneshot_vars, stream_vars,
                 log_vars, hist_vars, io_vars, h_cycle, connect_vars,
                 table_vars, cli_vars>>

\* a cycle begins: the poll request is fired
RateSend ==
  /\ r_pc \in {"send", "slept", "log_send", "log_slept"}
  /\ r_pc' = IF r_pc \in {"send", "slept"} THEN "recv" ELSE "log_recv"
  /\ r_waited' = 0
  /\ r_slept' = 0
  /\ UNCHANGED <<target_hz, interval_ms>>
  /\ UNCHANGED <<command_socket, inbox, produced, oneshot_vars, stream_vars,
                 log_vars, hist_vars, io_vars, h_cycle, connect_vars,
                 table_vars, cli_vars>>

\* the receive wait of the stream task ends after w ms: with a datagram,
\* an error, or at w = 50 with the deadline; all lead to the sleep
RateWait(w) ==
  /\ r_pc = "recv"
  /\ r_waited' = w
  /\ r_pc' = "sleep"
  /\ UNCHANGED <<target_hz, interval_ms, r_slept>>
  /\ UNCHANGED <<command_socket, inbox, produced, oneshot_vars, stream_vars,
                 log_vars, hist_vars, io_vars, h_cycle, connect_vars,
                 table_vars, cli_vars>>

\* the receive wait of the logging loop ends after w ms; at the deadline
\* `?` returns from main, before it the loop goes to its sleep
RateLogWait(w) ==
  /\ r_pc = "log_recv"
  /\ r_waited' = w
  /\ r_pc' = IF w < RECV_WAIT_MS THEN "log_sleep" ELSE "log_exit"
  /\ UNCHANGED <<target_hz, interval_ms, r_slept>>
  /\ UNCHANGED <<command_socket, inbox, produced, oneshot_vars, stream_vars,
                 log_vars, hist_vars, io_vars, h_cycle, connect_vars,
                 table_vars, cli_vars>>

\* the sleep that ends the cycle
RateSleep ==
  /\ r_pc \in {"sleep", "log_sleep"}
  /\ r_slept' = SleepMs(interval_ms, r_waited)
  /\ r_pc' = IF r_pc = "sleep" THEN "slept" ELSE "log_slept"
  /\ UNCHANGED <<target_hz, interval_ms, r_waited>>
  /\ UNCHANGED <<command_socket, inbox, produced, oneshot_vars, stream_vars,
                 log_vars, hist_vars, io_vars, h_cycle, connect_vars,
                 table_vars, cli_vars>>

RateNext ==
  \/ \E hz \in 0..MaxHz : RateStart(hz)
  \/ RateLogStart
  \/ RateSend
  \/ \E w \in 0..RECV_WAIT_MS : RateWait(w)
  \/ \E w \in 0..RECV_WAIT_MS : RateLogWait(w)
  \/ RateSleep

RateSpec == Init /\ [][RateNext]_vars

\* main's command loop: a line is read, and each known command makes its
\* own session with connect(), uses it and lets it go

\* the five blocks of the loop that make a session
CliKinds == {"log", "simple", "complex", "simple_query", "complex_query"}

\* the blocks that leave main with `?` when the command fails; the simple
\* commands print the error and go on
CliExitsOnError == CliKinds \ {"simple"}

\* a slip: the session of a finished command kept alive
SessionsKept(n) == n

\* `camera` is a local of the command's block: it is dropped, and its
\* sockets closed, at the block's `continue` and when `?` returns from main
SessionsAfterDrop(n) == n - 1

CliStart ==
  /\ cli_pc = "none"
  /\ cli_pc' = "read"
  /\ UNCHANGED <<cli_kind, cli_sessions, cli_count>>
  /\ UNCHANGED <<command_socket, inbox, produced, oneshot_vars, stream_vars,
                 log_vars, hist_vars, io_vars, h_cycle, connect_vars,
                 table_vars, rate_vars>>

\* stdin.read_line and the matching of the first word: a known command
\* goes to its block, any other line falls through to the next read
CliRead(kind) ==
  /\ cli_pc = "read"
  /\ cli_count < MaxCommands
  /\ cli_count' = IF kind \in CliKinds THEN cli_count + 1 ELSE cli_count
  /\ cli_kind' = kind
  /\ cli_pc' = IF kind \in CliKinds THEN "connect" ELSE "read"
  /\ UNCHANGED cli_sessions
  /\ UNCHANGED <<command_socket, inbox, produced, oneshot_vars, stream_vars,
                 log_vars, hist_vars, io_vars, h_cycle, connect_vars,
                 table_vars, rate_vars>>

\* stdin.read_line(buf)? fails: main returns
CliReadError ==
  /\ cli_pc = "read"
  /\ cli_pc' = "exit_err"
  /\ UNCHANGED <<cli_kind, cli_sessions, cli_count>>
  /\ UNCHANGED <<command_socket, inbox, produced, oneshot_vars, stream_vars,
                 log_vars, hist_vars, io_vars, h_cycle, connect_vars,
                 table_vars, rate_vars>>

\* A8Mini::connect().await?: the bind of 8080 and 8088 fails when a
\* session of this process still holds them; it may fail for reasons of
\* the host as well (ok = FALSE); a failure returns from main
CliConnect(ok) ==
  /\ cli_pc = "connect"
  /\ IF cli_sessions > 0
       THEN /\ cli_pc' = "exit_addr_in_use"
            /\ UNCHANGED cli_sessions
       ELSE IF ok
         THEN /\ cli_pc' = "run"
              /\ cli_sessions' = cli_sessions + 1
         ELSE /\ cli_pc' = "exit_err"
              /\ UNCHANGED cli_sessions
  /\ UNCHANGED <<cli_kind, cli_count>>
  /\ UNCHANGED <<command_socket, inbox, produced, oneshot_vars, stream_vars,
                 log_vars, hist_vars, io_vars, h_cycle, connect_vars,
                 table_vars, rate_vars>>

\* the command's block runs to its `continue`, or `?` returns from main
CliRun(ok) ==
  /\ cli_pc = "run"
  /\ cli_pc' = IF ok \/ cli_kind \notin CliExitsOnError
                 THEN "read" ELSE "exit_err"
  /\ cli_sessions' = SessionsAfterDrop(cli_sessions)
  /\ UNCHANGED <<cli_kind, cli_count>>
  /\ UNCHANGED <<command_socket, inbox, produced, oneshot_vars, stream_vars,
                 log_vars, hist_vars, io_vars, h_cycle, connect_vars,
                 table_vars, rate_vars>>

CliNext ==
  \/ CliStart
  \/ \E kind \in CliKinds \cup {"unknown"} : CliRead(kind)
  \/ CliReadError
  \/ \E ok \in BOOLEAN : CliConnect(ok)
  \/ \E ok \in BOOLEAN : CliRun(ok)

CliSpec == Init /\ [][CliNext]_vars

\* A stream whose device answers every poll with the attitude datagram
\* DG[1], up to MaxBurst of them, and whose consumer reads at its own pace
DeviceStreams ==
  /\ command_socket = "connected"
  /\ stream_pc # "none"
  /\ Len(inbox) < MaxInbox
  /\ fed_valid + AttitudeInInbox < MaxBurst
  /\ inbox' = Append(inbox, 1)
  /\ UNCHANGED <<command_socket, produced, oneshot_vars, stream_vars,
                 log_vars, hist_vars, io_vars, connect_vars, table_vars, rate_vars, cli_vars>>
  /\ UNCHANGED h_cycle

ChanStreamStep ==
  \/ \E out \in SendOutcomes : StreamSend(out)
  \/ StreamRecv
  \/ StreamTxSend
  \/ StreamSleep

ChanNext ==
  \/ DeviceStreams
  \/ StartStream
  \/ ChanStreamStep
  \/ ConsumerRecv
  \/ ConsumerDrop

ChanSpec == Init /\ [][ChanNext]_vars

\* the spawned task is scheduled; the consumer owes nothing
FairChanSpec == ChanSpec /\ WF_vars(ChanStreamStep)

\* what the runtime guarantees: a pending receive of send_command ends by a
\* datagram or by its deadline, and the stream task and the logging loop
\* take their next step.  The device and the consumer owe nothing.
Fairness ==
  /\ \A c \in Callers : WF_vars(RecvReply(c) \/ RecvTimeout(c))
  /\ WF_vars(StreamStep)
  /\ WF_vars(LogStep)

FairSpec == Spec /\ Fairness

TypeOK ==
  /\ command_socket \in {"connected", "closed"}
  /\ inbox \in Seq(DGs) /\ Len(inbox) <= MaxInbox
  /\ pc \in [Callers -> {"idle", "recv", "done"}]
  /\ overlap \in BOOLEAN
  /\ stream_pc \in {"none", "send", "recv", "tx_send", "sleep", "exited"}
  /\ att \in 0..Len(DG)
  /\ Len(chan) <= CHANNEL_CAPACITY
  /\ rx_dropped \in BOOLEAN
  /\ log_pc \in {"none", "send", "recv", "sleep", "break", "err_send",
                 "err_timeout", "err_write"}
  /\ failure_count \in 0..max_failure_threshold
  /\ fed_valid \in 0..MaxBurst
  /\ fed_invalid \in 0..MaxDropped
  /\ fed_fail \in BOOLEAN
  /\ h_fails \in 0..max_failure_threshold
  /\ h_emitted \in 0..MaxBurst
  /\ h_requests \in 0..MaxCount
  /\ h_delivered \in 0..MaxBurst
  /\ t_row \in 0..NUM_COMMANDS
  /\ t_crc \in 0..65535
  /\ max_iter \in 0..MaxIter
  /\ h_attempts \in 0..MaxIter
  /\ \A c \in Callers : h_io[c].sends \in 0..1 /\ h_io[c].recvs \in 0..MaxCount
  /\ h_cycle.send \in SendOutcomes \cup {"none"}
  /\ h_cycle.taken \in 0..MaxCount /\ h_cycle.emitted \in 0..MaxCount
  /\ cy_sockets \in [command : {"none", "bound", "connected"},
                     http : {"none", "bound", "connected"}]
  /\ r_pc \in {"none", "panic", "send", "recv", "sleep", "slept",
               "log_send", "log_recv", "log_sleep", "log_slept", "log_exit"}
  /\ target_hz \in 0..MaxHz
  /\ interval_ms \in 0..1000
  /\ r_waited \in 0..RECV_WAIT_MS
  /\ r_slept \in 0..1000
  /\ cli_pc \in {"none", "read", "connect", "run", "exit_err",
                 "exit_addr_in_use"}
  /\ cli_kind \in CliKinds \cup {"none", "unknown"}
  /\ cli_sessions \in 0..1
  /\ cli_count \in 0..MaxCommands

---------------------------------------------------------------------------
(* The claims *)

OkKinds == {"Ok", "OkAttitude", "OkFirmware"}

AttitudeProducers ==
  {"get_attitude_information", "stream_attitude_data", "LogAttitudeStream"}

\* C1: a send_command whose socket delivers no datagram within the receive
\* deadline returns an error and no datagram, the timeout error unless the
\* receive itself failed, and every send_command that waits for its reply
\* eventually returns.
C1_RequestTimesOut ==
  /\ \A c \in Callers : (pc[c] = "recv") ~> (pc[c] = "done")
  /\ [][\A c \in Callers :
          (pc[c] = "recv" /\ pc'[c] = "done" /\ inbox = <<>>)
            => /\ res'[c].kind \in {"ErrTimeout", "ErrRecv"}
               /\ res'[c].dg = 0]_vars

\* C1, the case: a call that ended with the timeout error
C1_Witness ==
  \E c \in Callers : pc[c] = "done" /\ res[c].kind = "ErrTimeout"

\* C2: no typed value is produced from a datagram whose checksum field or
\* length field is wrong.
C2_NoValueFromInvalidFrame ==
  \A p \in produced : DGInfo[p.dg].crc_ok /\ DGInfo[p.dg].len_ok

\* C3: every attitude sample produced comes from a datagram with command
\* id 0x0D and a received length of at least 20 bytes.
C3_SampleFromAttitudeDatagram ==
  \A p \in produced :
    p.by \in AttitudeProducers
      => DGInfo[p.dg].id = 13 /\ DGInfo[p.dg].len >= 20

\* C4: at most one send_command is outstanding on the session at any time.
C4_OneOutstandingRequest == Cardinality(Outstanding) <= 1

\* C5 as claimed: with requests issued one at a time, a request for command
\* id c succeeds only with a datagram whose command id is c.
C5_ReplyMatchesRequest ==
  \A c \in Callers :
    (~overlap /\ res[c].kind \in OkKinds /\ req[c].api # "send_command_blind")
      => DGInfo[res[c].dg].id = CommandId(req[c].cmd)

\* C5 as amended: with requests issued one at a time, a waiting request
\* ends with the first datagram the socket delivers: it takes exactly that
\* datagram off the socket and, unless the datagram is empty, returns it as
\* its success whatever its command id; it never takes a datagram and goes
\* on waiting.
C5_FirstDatagramIsTheReply ==
  [][\A c \in Callers :
       (~overlap /\ pc[c] = "recv" /\ inbox # <<>> /\ inbox' = Tail(inbox))
         => /\ pc'[c] = "done"
            /\ DGInfo[Head(inbox)].len > 0
                 => res'[c].kind \in OkKinds /\ res'[c].dg = Head(inbox)]_vars

\* C5, the case: a request answered by a datagram of another command id
C5_Witness ==
  \E c \in Callers :
    /\ ~overlap
    /\ req[c].api = "send_command"
    /\ res[c].kind = "Ok"
    /\ DGInfo[res[c].dg].id # CommandId(req[c].cmd)

\* a stream loop has ended and reported an error
EndedWithError == log_pc \in {"break", "err_timeout"}

\* C6: a polling stream whose receive wait failed on 10 cycles in a row,
\* and that was fed no attitude datagram, has ended with an error reported
\* and has emitted no sample.
C6_TenTimeoutsEndTheStream ==
  (h_fails >= max_failure_threshold /\ fed_valid = 0)
    => EndedWithError /\ h_emitted = 0

\* C7: a polling stream ends on failure only when its receive wait has
\* failed on as many cycles in a row as the threshold says.
C7_EndsOnlyAtThreshold ==
  EndedWithError => h_fails >= max_failure_threshold

\* C8: a datagram a polling stream reads that is not an attitude datagram
\* of full length is dropped: no sample is emitted, failure_count does not
\* change and the loop goes on to its sleep; and a stream fed 9 such
\* datagrams and 1 attitude datagram, and no failure, is still running and
\* has emitted exactly one sample.
C8_DroppedIsNotAFailure ==
  /\ [](/\ (/\ log_pc \notin {"none", "err_send", "err_write"}
            /\ ~fed_fail /\ fed_invalid = 9 /\ fed_valid = 1)
             => /\ log_pc \in {"send", "recv", "sleep"}
                /\ h_emitted = 1
                /\ failure_count = 0
        /\ (/\ stream_pc \notin {"none", "tx_send"}
            /\ ~rx_dropped /\ ~fed_fail /\ fed_invalid = 9 /\ fed_valid = 1)
             => /\ stream_pc \in {"send", "recv", "sleep"}
                /\ h_emitted = 1)
  /\ [][(/\ inbox # <<>>
         /\ inbox' = Tail(inbox)
         /\ ~IsAttitudeDatagram(Head(inbox)))
          => /\ log_pc = "recv"
               => /\ log_pc' = "sleep"
                  /\ failure_count' = failure_count
                  /\ h_fails' = 0
                  /\ h_emitted' = h_emitted
                  /\ produced' = produced
             /\ stream_pc = "recv"
               => /\ stream_pc' = "sleep"
                  /\ h_fails' = 0
                  /\ h_emitted' = h_emitted
                  /\ chan' = chan
                  /\ produced' = produced]_vars

\* C8, the case: the logging loop after 9 dropped datagrams and 1 sample
C8_Witness ==
  /\ log_pc = "sleep"
  /\ ~fed_fail
  /\ fed_invalid = 9
  /\ fed_valid = 1
  /\ h_emitted = 1

\* C9: once the stream task has stopped, the session's command socket is
\* still open and connected.
C9_SocketUsableAfterStream ==
  stream_pc = "exited" => command_socket = "connected"

\* C10: once the consumer has dropped the receiver, the stream task
\* eventually leaves its loop.
C10_TaskEndsAfterReceiverDrop ==
  (stream_pc # "none" /\ rx_dropped) ~> (stream_pc = "exited")

\* C11: the channel of stream_attitude_data never holds more than 100
\* samples; while the consumer holds the receiver every sample emitted is
\* either in the channel or was delivered, once; with the channel full the
\* producer stays in its send with its sample; and the channel changes only
\* by a sample appended at its end, by its oldest sample delivered, or by
\* the receiver being dropped.
C11_BoundedBlockingChannel ==
  /\ [](Len(chan) <= CHANNEL_CAPACITY)
  /\ [](~rx_dropped => h_emitted = h_delivered + Len(chan))
  /\ [][/\ (stream_pc = "tx_send" /\ Len(chan) = CHANNEL_CAPACITY /\ ~rx_dropped)
           => /\ stream_pc' = "tx_send"
              /\ att' = att
              /\ h_emitted' = h_emitted
              /\ Len(chan') <= CHANNEL_CAPACITY
        /\ chan' # chan
           => \/ /\ stream_pc = "tx_send"
                 /\ chan' = Append(chan, att)
                 /\ h_emitted' = h_emitted + 1
              \/ /\ chan' = Tail(chan)
                 /\ h_delivered' = h_delivered + 1
              \/ /\ rx_dropped'
                 /\ chan' = <<>>]_vars

\* C11, the case: the channel is full and the producer waits in its send
C11_Witness ==
  /\ Len(chan) = CHANNEL_CAPACITY
  /\ stream_pc = "tx_send"
  /\ ~rx_dropped
  /\ h_delivered > 0

\* C12: no operation blocks for ever; in particular an iteration of the
\* stream task that has a decoded sample in hand completes, whatever the
\* consumer does.
C12_IterationCompletes ==
  (stream_pc = "tx_send") ~> (stream_pc \in {"sleep", "exited"})

\* C13: a call of send_command_blind has returned as soon as its send has:
\* Ok exactly when the send reported bytes sent, an error when the send
\* failed or reported no byte; it makes no receive and leaves the socket's
\* queue as it was.
C13_BlindSendResult ==
  /\ [](\A c \in Callers :
          (req[c].api = "send_command_blind")
            => /\ pc[c] = "done"
               /\ h_io[c].sends = 1 /\ h_io[c].recvs = 0
               /\ res[c].kind = "Ok" <=> h_io[c].send = "ok"
               /\ h_io[c].send \in {"zero", "err"}
                    => res[c].kind \in {"ErrSend", "ErrNoBytesSent"})
  /\ [][\A c \in Callers :
          (req'[c].api = "send_command_blind" /\ h_io'[c] # h_io[c])
            => inbox' = inbox /\ pc[c] = "idle"]_vars

\* C13, the case: the send reported no byte and the call returned its error
C13_Witness ==
  \E c \in Callers :
    /\ req[c].api = "send_command_blind"
    /\ h_io[c].send = "zero"
    /\ res[c].kind = "ErrNoBytesSent"
    /\ inbox # <<>>

\* C14: a send_command whose receive returns within the deadline with zero
\* bytes read returns an error and no response bytes, and no typed value is
\* made of it.
C14_EmptyReadIsAnError ==
  [][\A c \in Callers :
       (/\ pc[c] = "recv" /\ pc'[c] = "done"
        /\ inbox # <<>> /\ inbox' = Tail(inbox)
        /\ RecvLen(Head(inbox), RECV_BUFF_SIZE) = 0)
         => /\ res'[c].kind = "ErrNoBytesReceived"
            /\ res'[c].dg = 0
            /\ produced' = produced]_vars

\* C14, the case: a send_command that read the empty datagram
C14_Witness ==
  \E c \in Callers :
    /\ req[c].api = "send_command"
    /\ h_io[c].recvs = 1
    /\ res[c].kind = "ErrNoBytesReceived"

\* the calls made of send_command
RequestApis ==
  {"send_command", "get_attitude_information", "get_firmware_version"}

\* C15: a call of send_command makes exactly one send and at most one
\* receive, the receive only after a send that reported bytes, and once it
\* has returned it sends and receives no more.
C15_OneSendOneReceive ==
  /\ [](\A c \in Callers :
          (req[c].api \in RequestApis)
            => /\ h_io[c].sends = 1
               /\ h_io[c].recvs <= 1
               /\ h_io[c].recvs = 1 => h_io[c].send = "ok" /\ pc[c] = "done"
               /\ (pc[c] = "done" /\ h_io[c].send = "ok") => h_io[c].recvs = 1)
  /\ [][\A c \in Callers :
          pc[c] = "done" => pc'[c] = "done" /\ h_io'[c] = h_io[c]]_vars

\* C15, the case: a send_command whose one receive failed
C15_Witness ==
  \E c \in Callers :
    /\ req[c].api = "send_command"
    /\ pc[c] = "done"
    /\ res[c].kind = "ErrRecv"
    /\ h_io[c].sends = 1
    /\ h_io[c].recvs = 1

\* C16: connect_yapping(max_iter) returns its error only after max_iter
\* attempts have failed, and a session after at most max_iter attempts.
C16_TriesMaxIterTimes ==
  /\ cy_pc = "err" => h_attempts = max_iter
  /\ cy_pc = "ok" => h_attempts \in 1..max_iter

\* C17: a typed one-shot query returns a value only from a reply long
\* enough for its layout: 20 bytes received for the attitude, 16 for the
\* firmware version.
C17_ShortReplyIsAnError ==
  \A c \in Callers :
    /\ res[c].kind = "OkAttitude"
         => RecvLen(res[c].dg, RECV_BUFF_SIZE) >= 20
    /\ res[c].kind = "OkFirmware"
         => RecvLen(res[c].dg, RECV_BUFF_SIZE) >= 16

\* the bytes of row i of COMMANDS as they go on the wire
FrameBytes(i) == [k \in 1..Len(COMMANDS[i]) |-> Byte(COMMANDS[i][k])]

\* C18: for every row of COMMANDS the last two bytes are the little-endian
\* CRC16 of the bytes before them, the CRC starting at 0 and taking each
\* byte by ((crc << 8) mod 2^16) XOR CRC16_TAB[(crc >> 8) XOR b]; the
\* auto-center frame is 55 66 01 01 00 00 00 08 01 d1 12.
C18_CannedFramesCarryTheirCRC ==
  /\ Len(COMMANDS) = NUM_COMMANDS
  /\ FrameBytes(AutoCenter) = <<85, 102, 1, 1, 0, 0, 0, 8, 1, 209, 18>>
  /\ t_row # 0 =>
       LET f == FrameBytes(t_row) IN
         /\ t_crc = CRC16_cal(SubSeq(f, 1, t_pos), 0)
         /\ t_pos = Len(f) - 2 => t_crc = f[Len(f) - 1] + 256 * f[Len(f)]

\* C18, the case: the checksum of the auto-center frame, 0x12d1, computed
C18_Witness ==
  /\ t_row = AutoCenter
  /\ t_pos = 9
  /\ t_crc = 4817

\* C19: every row of COMMANDS starts with 55 66 01, has COMMAND_SIZES[i]
\* bytes, between MIN_CMD_SIZE and MAX_CMD_SIZE, and its length field
\* (bytes 3..4, little-endian) is the number of payload bytes,
\* COMMAND_SIZES[i] - 10.
C19_CannedFramesWellFormed ==
  /\ Len(COMMAND_SIZES) = NUM_COMMANDS
  /\ t_row # 0 =>
       LET f == FrameBytes(t_row) IN
         /\ SubSeq(f, 1, 3) = <<85, 102, 1>>
         /\ Len(f) = COMMAND_SIZES[t_row]
         /\ MIN_CMD_SIZE <= Len(f) /\ Len(f) <= MAX_CMD_SIZE
         /\ f[4] + 256 * f[5] = COMMAND_SIZES[t_row] - 10

\* C19, the case: a 12-byte frame, the absolute zoom, walked to its end
C19_Witness ==
  /\ t_row = 9
  /\ COMMAND_SIZES[t_row] = 12
  /\ t_pos = 10

\* C20: a telemetry stream sends its request once: however many cycles
\* run, it has issued at most one request.
C20_OneRequestPerStream ==
  stream_pc # "none" => h_requests <= 1

\* C21: a send_command whose send failed or reported no byte returns that
\* error at once: it makes no receive and takes no datagram off the socket.
C21_NoReceiveAfterFailedSend ==
  /\ [](\A c \in Callers :
          (req[c].api \in RequestApis /\ h_io[c].send \in {"zero", "err"})
            => /\ pc[c] = "done"
               /\ h_io[c].recvs = 0
               /\ res[c].dg = 0
               /\ res[c].kind = IF h_io[c].send = "err" THEN "ErrSend"
                                                       ELSE "ErrNoBytesSent")
  /\ [][\A c \in Callers :
          (/\ req'[c].api \in RequestApis
           /\ h_io'[c] # h_io[c]
           /\ h_io'[c].send \in {"zero", "err"})
            => inbox' = inbox /\ pc[c] = "idle" /\ pc'[c] = "done"]_vars

\* C21, the case: the send of a send_command failed while a datagram was
\* waiting on the socket, and the datagram is still there
C21_Witness ==
  \E c \in Callers :
    /\ req[c].api = "send_command"
    /\ h_io[c].send = "err"
    /\ res[c].kind = "ErrSend"
    /\ inbox # <<>>

\* C22: in stream_attitude_data a poll request whose send failed changes
\* nothing: the task goes on to its receive wait whatever the send
\* reported and hands nothing to the consumer for it, the wait leads to the
\* sleep (through the channel send when a sample was decoded), the sleep to
\* the next request, and the task leaves its loop only from a channel send
\* with the receiver gone.
C22_FailedPollIsIgnored ==
  /\ []((stream_pc # "none" /\ h_cycle.send \in {"zero", "err"})
          => stream_pc = "recv" /\ command_socket = "connected")
  /\ [][/\ (stream_pc = "send" /\ stream_pc' # "send")
           => /\ stream_pc' = "recv"
              /\ h_cycle'.send \in SendOutcomes
              /\ h_requests' = Min(h_requests + 1, MaxCount)
              /\ chan' = chan /\ produced' = produced
        /\ (stream_pc = "recv" /\ stream_pc' # "recv")
           => stream_pc' \in {"sleep", "tx_send"}
        /\ (stream_pc = "sleep" /\ stream_pc' # "sleep")
           => stream_pc' = "send"
        /\ (stream_pc # "exited" /\ stream_pc' = "exited")
           => stream_pc = "tx_send" /\ rx_dropped]_vars

\* C22, the case: the task in the receive wait of a cycle, not its first,
\* whose request could not be sent
C22_Witness ==
  /\ stream_pc = "recv"
  /\ h_cycle.send = "err"
  /\ h_requests = 2

\* C23: in both polling loops a cycle is in its receive wait only after its
\* request was fired, takes at most one datagram, and that in its wait,
\* and emits at most one sample, and that of a datagram it took; samples
\* emitted never outnumber the datagrams received, nor these the requests
\* fired.
C23_RequestThenOneDatagram ==
  /\ []((stream_pc = "recv" \/ log_pc = "recv") => h_cycle.send # "none")
  /\ [](h_cycle.taken <= 1 /\ h_cycle.emitted <= h_cycle.taken)
  /\ [](h_emitted <= fed_valid)
  /\ []((~fed_fail /\ h_requests < MaxCount)
          => fed_valid + fed_invalid <= h_requests)
  /\ [][/\ h_cycle'.taken > h_cycle.taken
           => /\ h_cycle.send # "none"
              /\ inbox # <<>> /\ inbox' = Tail(inbox)
        /\ h_emitted' # h_emitted
           => /\ h_emitted' = h_emitted + 1
              /\ h_cycle'.taken = 1
              /\ h_cycle'.emitted = 1]_vars

\* C23, the case: the stream task at the end of the cycle that emitted its
\* second sample
C23_Witness ==
  /\ stream_pc = "sleep"
  /\ h_cycle.taken = 1
  /\ h_cycle.emitted = 1
  /\ h_emitted = 2

\* C24: for a target rate of at least 1 the period is positive, and a
\* cycle whose receive wait was shorter than the period ends with a sleep
\* of what is left of it: wait plus sleep is the period.
C24_SleepIsRemainder ==
  (target_hz >= 1 /\ r_pc # "none")
    => /\ interval_ms > 0
       /\ (r_pc \in {"slept", "log_slept"} /\ r_waited < interval_ms)
            => r_waited + r_slept = interval_ms

\* C25: in main's command loop a command runs on a session of its own,
\* made after the line was read and gone before the next line is read: at
\* most one session of the process holds the local ports, none while a
\* line is read or a connect is about to be made, and no connect fails
\* because an earlier session still holds them.
C25_OneSessionAtATime ==
  /\ cli_sessions \in {0, 1}
  /\ cli_pc = "run" => cli_sessions = 1
  /\ cli_pc \in {"read", "connect", "exit_err"} => cli_sessions = 0
  /\ cli_pc # "exit_addr_in_use"

\* C25, the case: the third command running on its session, after two
\* commands that made and let go theirs
C25_Witness ==
  /\ cli_pc = "run"
  /\ cli_count = 3
  /\ cli_sessions = 1

\* C26: a session exists exactly when a connect has completed, and then
\* both its sockets are bound and connected; the command socket is bound
\* and connected before the media socket; an attempt that failed leaves no
\* session and no socket; and a call is made only on a session whose
\* connect completed.
C26_SessionOnlyWhenConnected ==
  /\ command_socket = "connected" <=> cy_pc = "ok"
  /\ cy_pc = "ok"
       => cy_sockets = [command |-> "connected", http |-> "connected"]
  /\ cy_pc \in {"none", "loop", "err"} => cy_sockets = NoSockets
  /\ cy_sockets.http # "none" => cy_sockets.command # "none"
  /\ cy_sockets.http = "connected" => cy_sockets.command = "connected"
  /\ \A c \in Callers :
       pc[c] # "idle" => cy_pc = "ok" /\ cy_sockets.http = "connected"

\* C26, the case: a call made on the session that the second attempt
\* returned, after a first attempt failed and let go of its sockets
C26_Witness ==
  /\ cy_pc = "ok"
  /\ h_attempts = 2
  /\ cy_sockets = [command |-> "connected", http |-> "connected"]
  /\ pc["t1"] # "idle"

=============================================================================
